---- MODULE Spec2Model ----
(***************************************************************************)
(* A model of the gfa2vcf command of rs-gfa-utils                          *)
(* (src/commands/gfa2vcf.rs): the run of gfa2vcf() from its arguments to   *)
(* its return, with the bubble assignment loop taken one path iteration    *)
(* per step.                                                               *)
(***************************************************************************)
EXTENDS Integers, Sequences, FiniteSets, TLC

VARIABLES
    pc,                      \* position of the run inside gfa2vcf()
    ref_path_names,          \* the set of reference path names ({} is None)
    gfa,                     \* the graph as load_gfa returned it
    segment_map,             \* segment id -> sequence
    all_paths,               \* the paths with their (id, orientation, offset) steps
    ultrabubbles,            \* the sorted Vec<(u64, u64)>
    remaining_ultrabubbles,  \* the pool: FnvHashMap entry id -> exit id
    representative_paths,    \* Vec<(path name, Vec<(entry, exit)>)>
    count,                   \* index (from 0) of the path the loop is at
    scanned,                 \* history: indices of the paths whose steps were scanned
    stdout                   \* the lines printed so far

vars == << pc, ref_path_names, gfa, segment_map, all_paths, ultrabubbles,
           remaining_ultrabubbles, representative_paths, count, scanned, stdout >>

(***************************************************************************)
(* Bounds of the inputs.                                                   *)
(***************************************************************************)
\* Graphs whose paths are any walks: segments, paths, steps of all paths together.
MaxSeg == 2
MaxPaths == 2
MaxTotalSteps == 4
MaxBubbles == 1
\* Graphs whose paths are forward walks of an acyclic graph from its source segment.
MaxDagSeg == 3
MaxDagPaths == 2
MaxDagBubbles == 2
\* Graphs whose paths traverse segments in either orientation.
MaxOrientedSeg == 2
MaxOrientedPaths == 2
MaxOrientedTotalSteps == 2
MaxOrientedBubbles == 1

Forward == "+"
Backward == "-"

Range(s) == { s[i] : i \in DOMAIN s }

EmptyMap == [ x \in {} |-> 0 ]

(***************************************************************************)
(* Pure parts of gfa2vcf().                                                *)
(***************************************************************************)

\* Orientation of the steps is carried by the paths and ignored by the loop.
StepId(step) == step[1]

StepIds(steps) == { StepId(steps[i]) : i \in DOMAIN steps }

\* Vec<(u64, u64)>::sort(): tuples are ordered lexicographically.
PairLess(a, b) == a[1] < b[1] \/ (a[1] = b[1] /\ a[2] < b[2])

SortUltrabubbles(v) == SortSeq(v, PairLess)

\* HashMap::insert: a later value for the same key replaces the earlier one.
MapInsert(m, k, v) == [ x \in (DOMAIN m) \cup {k} |-> IF x = k THEN v ELSE m[x] ]

RECURSIVE CollectPool(_, _)
CollectPool(pairs, m) ==
    IF pairs = << >> THEN m
    ELSE CollectPool(Tail(pairs), MapInsert(m, Head(pairs)[1], Head(pairs)[2]))

\* A loop without its early exit: the pool is never found empty.
PoolNeverEmpty(remaining) == FALSE

\* remaining_ultrabubbles.is_empty()
PoolIsEmpty(remaining) == DOMAIN remaining = {}

\* find_map in place of filter_map: the first step that is a key of the pool only.
RECURSIVE MaybeContainedFirst(_, _)
MaybeContainedFirst(steps, remaining) ==
    IF steps = << >> THEN << >>
    ELSE IF StepId(Head(steps)) \in DOMAIN remaining
         THEN << << remaining[StepId(Head(steps))], StepId(Head(steps)) >> >>
         ELSE MaybeContainedFirst(Tail(steps), remaining)

\* steps.iter().filter_map(...): one (exit, entry) per step that is a key of the pool.
RECURSIVE MaybeContained(_, _)
MaybeContained(steps, remaining) ==
    IF steps = << >> THEN << >>
    ELSE LET x == StepId(Head(steps))
             rest == MaybeContained(Tail(steps), remaining)
         IN  IF x \in DOMAIN remaining
             THEN << << remaining[x], x >> >> \o rest
             ELSE rest

\* The inner filter_map of the re-scan: the matches whose exit is the step y.
MatchesOfStep(y, maybe_contained) ==
    LET hits == SelectSeq(maybe_contained, LAMBDA m : m[1] = y)
    IN  [ i \in 1..Len(hits) |-> << hits[i][2], hits[i][1] >> ]

\* The re-scan left out: every tentative match counts as contained.
ContainedNoRescan(steps, maybe_contained) ==
    [ i \in DOMAIN maybe_contained |-> << maybe_contained[i][2], maybe_contained[i][1] >> ]

\* The re-scan comparing the step with the entry (b == y) instead of the exit.
RECURSIVE ContainedByEntry(_, _)
ContainedByEntry(steps, maybe_contained) ==
    IF steps = << >> THEN << >>
    ELSE LET hits == SelectSeq(maybe_contained, LAMBDA m : m[2] = StepId(Head(steps)))
         IN  [ i \in 1..Len(hits) |-> << hits[i][2], hits[i][1] >> ]
                 \o ContainedByEntry(Tail(steps), maybe_contained)

\* steps.iter().flat_map(...): one (entry, exit) per step that is the exit of a match.
RECURSIVE Contained(_, _)
Contained(steps, maybe_contained) ==
    IF steps = << >> THEN << >>
    ELSE MatchesOfStep(StepId(Head(steps)), maybe_contained)
             \o Contained(Tail(steps), maybe_contained)

\* remove(&y) in place of remove(&x): the exit ids are taken out of the pool's keys.
RemoveContainedExits(remaining, contained) ==
    [ x \in (DOMAIN remaining) \ { contained[i][2] : i \in DOMAIN contained } |->
        remaining[x] ]

\* for &(x, y) in contained.iter() { remaining_ultrabubbles.remove(&x); }
RemoveContained(remaining, contained) ==
    LET gone == { contained[i][1] : i \in DOMAIN contained }
    IN  [ x \in (DOMAIN remaining) \ gone |-> remaining[x] ]

\* The record pushed without the test of line 169.
ShouldRecordAlways(bubbles) == TRUE

\* if !bubbles.is_empty()
ShouldRecord(bubbles) == bubbles # << >>

\* The path count check off by one: paths.len() < 1.
TooFewPathsOffByOne(g) == Len(g.paths) < 1

\* if gfa.paths.len() < 2
TooFewPaths(g) == Len(g.paths) < 2

\* The sequence lengths of the steps before step i, summed.
RECURSIVE OffsetOf(_, _, _)
OffsetOf(segs, steps, i) ==
    IF i <= 1 THEN 0
    ELSE OffsetOf(segs, steps, i - 1) + Len(segs[steps[i - 1][1]])

PathsWithOffsets(g) ==
    [ p \in DOMAIN g.paths |->
        [ name  |-> g.paths[p].name,
          steps |-> [ i \in DOMAIN g.paths[p].steps |->
                        << g.paths[p].steps[i][1], g.paths[p].steps[i][2],
                           OffsetOf(g.segments, g.paths[p].steps, i) >> ] ] ]

(***************************************************************************)
(* The inputs a run may meet.                                              *)
(***************************************************************************)
SeqsUpTo(S, n) == UNION { [ 1..k -> S ] : k \in 0..n }

RECURSIVE SumTo(_, _)
SumTo(lens, k) == IF k = 0 THEN 0 ELSE lens[k] + SumTo(lens, k - 1)

\* The step list flat cut into consecutive paths of the lengths lens.
CutPaths(flat, lens) ==
    [ i \in DOMAIN lens |-> SubSeq(flat, SumTo(lens, i - 1) + 1, SumTo(lens, i)) ]

\* The lists of at most maxPaths paths over stepValues with at most maxTotal steps in all.
PathLists(stepValues, maxPaths, maxTotal) ==
    UNION { UNION { { CutPaths(flat, lens) :
                        flat \in [ 1..n -> stepValues ],
                        lens \in { l \in [ 1..k -> 0..n ] : SumTo(l, k) = n } } :
                    n \in 0..maxTotal } :
            k \in 0..maxPaths }

NamedPaths(ps) == [ i \in DOMAIN ps |-> [ name |-> i, steps |-> ps[i] ] ]

PlainSegments(n) == [ s \in 1..n |-> << "A" >> ]

\* Graphs whose paths may visit a segment more than once.
Graphs ==
    { [ segments |-> PlainSegments(MaxSeg), paths |-> NamedPaths(ps) ] :
        ps \in PathLists((1..MaxSeg) \X { Forward }, MaxPaths, MaxTotalSteps) }

\* Graphs whose paths traverse segments in either orientation.
OrientedGraphs ==
    { [ segments |-> PlainSegments(MaxOrientedSeg), paths |-> NamedPaths(ps) ] :
        ps \in PathLists((1..MaxOrientedSeg) \X { Forward, Backward },
                         MaxOrientedPaths, MaxOrientedTotalSteps) }

\* The forward walks of an acyclic graph: the ascending lists of its segments.
RECURSIVE Ascending(_)
Ascending(S) ==
    IF S = {} THEN << >>
    ELSE LET lo == CHOOSE x \in S : \A y \in S : x <= y
         IN  << << lo, Forward >> >> \o Ascending(S \ {lo})

ForwardWalks(segs) == { Ascending(S) : S \in SUBSET segs }

\* The forward walks that start at segment 1, the source of the graph.
SourceWalks(segs) == { w \in ForwardWalks(segs) : w # << >> /\ w[1][1] = 1 }

DagGraphs ==
    { [ segments |-> PlainSegments(MaxDagSeg), paths |-> NamedPaths(ps) ] :
        ps \in SeqsUpTo(SourceWalks(1..MaxDagSeg), MaxDagPaths) }

\* A bubble has an entry and an exit that differ.
BubblePairs(segs) == { b \in segs \X segs : b[1] # b[2] }

\* In an acyclic graph the entry of a bubble precedes its exit.
ForwardBubblePairs(segs) == { b \in segs \X segs : b[1] < b[2] }

UltrabubbleVecs == SeqsUpTo(BubblePairs(1..MaxSeg), MaxBubbles)

OrientedUltrabubbleVecs == SeqsUpTo(BubblePairs(1..MaxOrientedSeg), MaxOrientedBubbles)

DagUltrabubbleVecs == SeqsUpTo(ForwardBubblePairs(1..MaxDagSeg), MaxDagBubbles)

\* The segments of a graph with one site of variation: AA (A|T) A.
SnpSegments == << <<"A", "A">>, <<"A">>, <<"T">>, <<"A">> >>

\* The graphs of one or two forward walks over these segments.
SnpGraphs ==
    { [ segments |-> SnpSegments, paths |-> NamedPaths(ps) ] :
        ps \in [ 1..1 -> ForwardWalks(DOMAIN SnpSegments) ]
                  \cup [ 1..2 -> ForwardWalks(DOMAIN SnpSegments) ] }

SnpUltrabubbleVecs ==
    { << >> } \cup { << b >> : b \in ForwardBubblePairs(DOMAIN SnpSegments) }

(***************************************************************************)
(* The run.                                                                *)
(***************************************************************************)
Init ==
    /\ pc = "start"
    /\ ref_path_names = {}
    /\ gfa = [ segments |-> << >>, paths |-> << >> ]
    /\ segment_map = EmptyMap
    /\ all_paths = << >>
    /\ ultrabubbles = << >>
    /\ remaining_ultrabubbles = EmptyMap
    /\ representative_paths = << >>
    /\ count = 0
    /\ scanned = {}
    /\ stdout = << >>

\* Lines 66-90: the reference path names of --refs and --paths-file, None when empty.
ReadRefPaths(choices) ==
    /\ pc = "start"
    /\ \E refs \in choices : ref_path_names' = refs
    /\ pc' = "args"
    /\ UNCHANGED << gfa, segment_map, all_paths, ultrabubbles, remaining_ultrabubbles,
                    representative_paths, count, scanned, stdout >>

\* Line 71: the paths file cannot be read.
ReadRefPathsError ==
    /\ pc = "start"
    /\ pc' = "error"
    /\ UNCHANGED << ref_path_names, gfa, segment_map, all_paths, ultrabubbles,
                    remaining_ultrabubbles, representative_paths, count, scanned, stdout >>

\* Lines 92-108: load the graph, require two paths, build the segment map and the paths.
LoadGfa(graphs) ==
    /\ pc = "args"
    /\ \E g \in graphs :
        /\ gfa' = g
        /\ IF TooFewPaths(g)
           THEN /\ pc' = "panicked"
                /\ UNCHANGED << segment_map, all_paths >>
           ELSE /\ pc' = "paths"
                /\ segment_map' = [ s \in DOMAIN g.segments |-> g.segments[s] ]
                /\ all_paths' = PathsWithOffsets(g)
    /\ UNCHANGED << ref_path_names, ultrabubbles, remaining_ultrabubbles,
                    representative_paths, count, scanned, stdout >>

\* Line 92: load_gfa fails.
LoadGfaError ==
    /\ pc = "args"
    /\ pc' = "error"
    /\ UNCHANGED << ref_path_names, gfa, segment_map, all_paths, ultrabubbles,
                    remaining_ultrabubbles, representative_paths, count, scanned, stdout >>

\* Lines 111-124: obtain the ultrabubbles, sort them, build the pool.
LoadUltrabubbles(vecs) ==
    /\ pc = "paths"
    /\ \E v \in vecs :
        /\ ultrabubbles' = SortUltrabubbles(v)
        /\ remaining_ultrabubbles' = CollectPool(SortUltrabubbles(v), EmptyMap)
    /\ representative_paths' = << >>
    /\ count' = 0
    /\ pc' = "loop"
    /\ UNCHANGED << ref_path_names, gfa, segment_map, all_paths, scanned, stdout >>

\* Line 115: the ultrabubble source fails.
LoadUltrabubblesError ==
    /\ pc = "paths"
    /\ pc' = "error"
    /\ UNCHANGED << ref_path_names, gfa, segment_map, all_paths, ultrabubbles,
                    remaining_ultrabubbles, representative_paths, count, scanned, stdout >>

\* Lines 128-130: the pool is empty at the start of an iteration.
LoopBreak ==
    /\ pc = "loop"
    /\ count < Len(all_paths)
    /\ PoolIsEmpty(remaining_ultrabubbles)
    /\ pc' = "summary"
    /\ UNCHANGED << ref_path_names, gfa, segment_map, all_paths, ultrabubbles,
                    remaining_ultrabubbles, representative_paths, count, scanned, stdout >>

\* Line 127: the iterator over all_paths is exhausted.
LoopEnd ==
    /\ pc = "loop"
    /\ count = Len(all_paths)
    /\ pc' = "summary"
    /\ UNCHANGED << ref_path_names, gfa, segment_map, all_paths, ultrabubbles,
                    remaining_ultrabubbles, representative_paths, count, scanned, stdout >>

\* Lines 131-145: a path none of whose steps is a key of the pool.
LoopContinue ==
    /\ pc = "loop"
    /\ count < Len(all_paths)
    /\ ~ PoolIsEmpty(remaining_ultrabubbles)
    /\ MaybeContained(all_paths[count + 1].steps, remaining_ultrabubbles) = << >>
    /\ scanned' = scanned \cup {count}
    /\ count' = count + 1
    /\ UNCHANGED << pc, ref_path_names, gfa, segment_map, all_paths, ultrabubbles,
                    remaining_ultrabubbles, representative_paths, stdout >>

\* Lines 131-178: a path with tentative matches.
LoopAssign ==
    /\ pc = "loop"
    /\ count < Len(all_paths)
    /\ ~ PoolIsEmpty(remaining_ultrabubbles)
    /\ LET path == all_paths[count + 1]
           maybe_contained == MaybeContained(path.steps, remaining_ultrabubbles)
           contained == Contained(path.steps, maybe_contained)
           remaining == RemoveContained(remaining_ultrabubbles, contained)
       IN  /\ maybe_contained # << >>
           /\ remaining_ultrabubbles' = remaining
           /\ IF ShouldRecord(contained)
              THEN /\ stdout' = Append(stdout, << "assigned", count, path.name,
                                                  Len(contained),
                                                  Cardinality(DOMAIN remaining) >>)
                   /\ representative_paths' =
                          Append(representative_paths,
                                 [ path_name |-> path.name, bubbles |-> contained ])
              ELSE UNCHANGED << stdout, representative_paths >>
    /\ scanned' = scanned \cup {count}
    /\ count' = count + 1
    /\ UNCHANGED << pc, ref_path_names, gfa, segment_map, all_paths, ultrabubbles >>

\* Lines 181-384: the two summary lines, then Ok(()).
PrintSummary ==
    /\ pc = "summary"
    /\ stdout' = stdout \o << << "paths", Len(representative_paths) >>,
                              << "bubbles left",
                                 Cardinality(DOMAIN remaining_ultrabubbles) >> >>
    /\ pc' = "done"
    /\ UNCHANGED << ref_path_names, gfa, segment_map, all_paths, ultrabubbles,
                    remaining_ultrabubbles, representative_paths, count, scanned >>

Loop == LoopBreak \/ LoopEnd \/ LoopContinue \/ LoopAssign

Errors == ReadRefPathsError \/ LoadGfaError \/ LoadUltrabubblesError

Next ==
    \/ ReadRefPaths({ {} })
    \/ LoadGfa(Graphs)
    \/ LoadUltrabubbles(UltrabubbleVecs)
    \/ Loop
    \/ PrintSummary
    \/ Errors

Spec == Init /\ [][Next]_vars

NextOriented ==
    \/ ReadRefPaths({ {} })
    \/ LoadGfa(OrientedGraphs)
    \/ LoadUltrabubbles(OrientedUltrabubbleVecs)
    \/ Loop
    \/ PrintSummary
    \/ Errors

SpecOriented == Init /\ [][NextOriented]_vars

NextDag ==
    \/ ReadRefPaths({ {} })
    \/ LoadGfa(DagGraphs)
    \/ LoadUltrabubbles(DagUltrabubbleVecs)
    \/ Loop
    \/ PrintSummary
    \/ Errors

SpecDag == Init /\ [][NextDag]_vars

NextSnp ==
    \/ ReadRefPaths({ {}, {1} })
    \/ LoadGfa(SnpGraphs)
    \/ LoadUltrabubbles(SnpUltrabubbleVecs)
    \/ Loop
    \/ PrintSummary
    \/ Errors

SpecSnp == Init /\ [][NextSnp]_vars

(***************************************************************************)
(* The loop of lines 127-179 as a function of the path list and the pool,  *)
(* for runs over another order of the same paths.                          *)
(***************************************************************************)
RECURSIVE RunLoop(_, _, _)
RunLoop(paths, remaining, records) ==
    IF paths = << >> \/ PoolIsEmpty(remaining)
    THEN [ remaining |-> remaining, records |-> records ]
    ELSE LET path == Head(paths)
             maybe_contained == MaybeContained(path.steps, remaining)
             contained == Contained(path.steps, maybe_contained)
         IN  IF maybe_contained = << >>
             THEN RunLoop(Tail(paths), remaining, records)
             ELSE RunLoop(Tail(paths), RemoveContained(remaining, contained),
                          IF ShouldRecord(contained)
                          THEN Append(records, [ path_name |-> path.name,
                                                 bubbles |-> contained ])
                          ELSE records)

(***************************************************************************)
(* Vocabulary of the properties.                                           *)
(***************************************************************************)
InLoop == pc \in { "loop", "summary", "done" }

LoopOver == pc \in { "summary", "done" }

InputBubbles == Range(ultrabubbles)

UniqueEntries ==
    \A i, j \in DOMAIN ultrabubbles : i # j => ultrabubbles[i][1] # ultrabubbles[j][1]

PoolPairs(m) == { << e, m[e] >> : e \in DOMAIN m }

InitialPool == CollectPool(ultrabubbles, EmptyMap)

\* The records that list the pair b, and how often all records list it.
OwnersOf(b) ==
    { i \in DOMAIN representative_paths : b \in Range(representative_paths[i].bubbles) }

Listings(b) ==
    UNION { { << i, j >> : j \in { k \in DOMAIN representative_paths[i].bubbles :
                                     representative_paths[i].bubbles[k] = b } } :
            i \in DOMAIN representative_paths }

IdsOfPath(p) == StepIds(all_paths[p].steps)

HasBoth(p, b) == b[1] \in IdsOfPath(p) /\ b[2] \in IdsOfPath(p)

Permute(paths, perm) == [ i \in DOMAIN paths |-> paths[perm[i]] ]

RECURSIVE Concat(_)
Concat(ss) == IF ss = << >> THEN << >> ELSE Head(ss) \o Concat(Tail(ss))

PathSequence(p) ==
    Concat([ i \in DOMAIN all_paths[p].steps |-> segment_map[all_paths[p].steps[i][1]] ])

VariantRecords == SelectSeq(stdout, LAMBDA line : line[1] = "record")

\* The record of the path named p, if the loop appended one.
RecordsOf(p) ==
    { i \in DOMAIN representative_paths : representative_paths[i].path_name = p }

\* p is the first path, in declaration order, with both ids of b among its steps.
EarliestWithBoth(p, b) ==
    HasBoth(p, b) /\ \A q \in 1..(p - 1) : ~ HasBoth(q, b)

\* p is the first path, in declaration order, with the entry id of b among its steps.
EarliestWithEntry(p, b) ==
    b[1] \in IdsOfPath(p) /\ \A q \in 1..(p - 1) : b[1] \notin IdsOfPath(q)

(***************************************************************************)
(* C1: with unique entry ids, at every point of the loop and after it each *)
(* input bubble is either in the remaining pool or listed exactly once in  *)
(* all assignment records taken together, never both and never neither,    *)
(* and the records list input bubbles only.                                *)
(***************************************************************************)
C1_AssignedPlusRemainingIsInput ==
    (InLoop /\ UniqueEntries) =>
        /\ \A b \in InputBubbles :
              \/ b \in PoolPairs(remaining_ultrabubbles) /\ Listings(b) = {}
              \/ b \notin PoolPairs(remaining_ultrabubbles) /\ Cardinality(Listings(b)) = 1
        /\ \A i \in DOMAIN representative_paths :
              Range(representative_paths[i].bubbles) \subseteq InputBubbles

(***************************************************************************)
(* C2 as stated: once the first path with the entry id of a bubble among   *)
(* its steps has been processed, the bubble is in that path's record and   *)
(* out of the pool (stated for inputs with unique entry ids, where every   *)
(* input bubble is in the pool at the start).                              *)
(***************************************************************************)
C2_OwnedByFirstPathWithEntry ==
    (InLoop /\ UniqueEntries) =>
        \A b \in InputBubbles : \A p \in DOMAIN all_paths :
            (EarliestWithEntry(p, b) /\ (count >= p \/ LoopOver)) =>
                /\ b[1] \notin DOMAIN remaining_ultrabubbles
                /\ \E i \in RecordsOf(p) : b \in Range(representative_paths[i].bubbles)

(***************************************************************************)
(* C2 amended: each entry of the pool as built from the input is owned by  *)
(* the first path with both its entry id and its exit id among its steps:  *)
(* it is in the pool and in no record until that path is processed, and    *)
(* out of the pool and in the record of that path alone afterwards.        *)
(***************************************************************************)
C2_OwnedByFirstPathWithBoth ==
    InLoop =>
        \A b \in PoolPairs(InitialPool) : \A p \in DOMAIN all_paths :
            EarliestWithBoth(p, b) =>
                IF count >= p
                THEN /\ b[1] \notin DOMAIN remaining_ultrabubbles
                     /\ OwnersOf(b) # {}
                     /\ OwnersOf(b) = RecordsOf(p)
                ELSE /\ pc = "loop"
                     /\ b \in PoolPairs(remaining_ultrabubbles)
                     /\ OwnersOf(b) = {}

\* A bubble went past a path with its entry only and was taken by a later path.
C2_Witness ==
    /\ pc = "done"
    /\ \E b \in PoolPairs(InitialPool) :
          /\ b[1] \in IdsOfPath(1) /\ b[2] \notin IdsOfPath(1)
          /\ \E p \in DOMAIN all_paths :
                p > 1 /\ EarliestWithBoth(p, b) /\ OwnersOf(b) = RecordsOf(p)
                      /\ RecordsOf(p) # {}

(***************************************************************************)
(* C3: the pool at the end of the run is the pool the loop ends with on    *)
(* every permutation of the path list.                                     *)
(***************************************************************************)
C3_RemainingIsOrderIndependent ==
    pc = "done" =>
        \A perm \in Permutations(DOMAIN all_paths) :
            RunLoop(Permute(all_paths, perm), InitialPool, << >>).remaining
                = remaining_ultrabubbles

\* Some other order of the paths yields other records, and bubbles remain.
C3_Witness ==
    /\ pc = "done"
    /\ ~ PoolIsEmpty(remaining_ultrabubbles)
    /\ representative_paths # << >>
    /\ \E perm \in Permutations(DOMAIN all_paths) :
          Range(RunLoop(Permute(all_paths, perm), InitialPool, << >>).records)
              # Range(representative_paths)

(***************************************************************************)
(* C4: an iteration that starts with an empty pool ends the loop and       *)
(* scans nothing; the loop ends only on an empty pool or after the last    *)
(* path; after the loop the pool and the records stay as they are.         *)
(***************************************************************************)
C4_EarlyTermination ==
    /\ [][ (pc = "loop" /\ count < Len(all_paths) /\ DOMAIN remaining_ultrabubbles = {})
             => (pc' = "summary"
                   /\ UNCHANGED << remaining_ultrabubbles, representative_paths,
                                   scanned, count >>) ]_vars
    /\ [][ (pc = "loop" /\ pc' # "loop")
             => (DOMAIN remaining_ultrabubbles = {} \/ count = Len(all_paths)) ]_vars
    /\ [][ LoopOver
             => UNCHANGED << remaining_ultrabubbles, representative_paths, scanned >> ]_vars

\* The loop stopped on an emptied pool with paths left unscanned.
C4_Witness ==
    /\ pc = "done"
    /\ ultrabubbles # << >>
    /\ representative_paths # << >>
    /\ count < Len(all_paths)
    /\ scanned = 0..(count - 1)

(***************************************************************************)
(* C5: a record is appended for the path being processed, its pairs are    *)
(* input bubbles held by the pool before the path was processed, with the  *)
(* entry id and the exit id both among the steps of that path; records     *)
(* already appended never change.                                          *)
(***************************************************************************)
C5_RecordedBubblesLieOnThePath ==
    [][ pc = "loop" =>
          /\ Len(representative_paths') >= Len(representative_paths)
          /\ SubSeq(representative_paths', 1, Len(representative_paths))
                = representative_paths
          /\ \A i \in (DOMAIN representative_paths') \ (DOMAIN representative_paths) :
                /\ representative_paths'[i].path_name = all_paths[count + 1].name
                /\ \A b \in Range(representative_paths'[i].bubbles) :
                      /\ b \in InputBubbles
                      /\ b \in PoolPairs(remaining_ultrabubbles)
                      /\ b[1] \in IdsOfPath(count + 1)
                      /\ b[2] \in IdsOfPath(count + 1) ]_vars

\* A path has a record with a bubble whose exit alone is on another path, which has none.
C5_Witness ==
    \E i \in DOMAIN representative_paths :
        LET p == representative_paths[i].path_name
        IN  \E b \in Range(representative_paths[i].bubbles) :
              /\ HasBoth(p, b)
              /\ \E q \in DOMAIN all_paths :
                    /\ q # p
                    /\ b[2] \in IdsOfPath(q)
                    /\ b[1] \notin IdsOfPath(q)
                    /\ RecordsOf(q) = {}

(***************************************************************************)
(* C6: no input bubble is dropped: in the loop and after it every input    *)
(* bubble is in the pool or in a record.                                   *)
(***************************************************************************)
C6_NoBubbleSilentlyDropped ==
    InLoop =>
        \A b \in InputBubbles :
            b \in PoolPairs(remaining_ultrabubbles) \/ OwnersOf(b) # {}

(***************************************************************************)
(* C7: a run goes past the path count check with two paths or more only;   *)
(* a run that panicked on the check has loaded no ultrabubbles, scanned no *)
(* path, appended no record and printed nothing, and takes no further step.*)
(***************************************************************************)
C7_TooFewPathsIsFatal ==
    /\ [](pc \in { "paths", "loop", "summary", "done" } => Len(gfa.paths) >= 2)
    /\ [](pc = "panicked" =>
            /\ Len(gfa.paths) < 2
            /\ all_paths = << >>
            /\ ultrabubbles = << >>
            /\ scanned = {}
            /\ representative_paths = << >>
            /\ stdout = << >>)
    /\ [][ pc = "args" /\ pc' # "error" /\ Len(gfa'.paths) < 2 => pc' = "panicked" ]_vars
    /\ [][ pc # "panicked" ]_vars

\* A graph with one path, with steps, was loaded and the run panicked.
C7_Witness ==
    /\ pc = "panicked"
    /\ Len(gfa.paths) = 1
    /\ gfa.paths[1].steps # << >>

(***************************************************************************)
(* C8: on the graph with P1 = AAAA and P2 = AATA around one ultrabubble    *)
(* and P1 as reference, the finished run has printed one variant record.   *)
(***************************************************************************)
SnpScenario ==
    /\ Len(all_paths) = 2
    /\ [ i \in DOMAIN all_paths[1].steps |-> all_paths[1].steps[i][1] ] = << 1, 2, 4 >>
    /\ [ i \in DOMAIN all_paths[2].steps |-> all_paths[2].steps[i][1] ] = << 1, 3, 4 >>
    /\ PathSequence(1) = << "A", "A", "A", "A" >>
    /\ PathSequence(2) = << "A", "A", "T", "A" >>
    /\ ultrabubbles = << << 1, 4 >> >>
    /\ ref_path_names = { 1 }

C8_OneVariantRecord ==
    (pc = "done" /\ SnpScenario) => Len(VariantRecords) = 1

(***************************************************************************)
(* C9: an iteration over a path that has no pool bubble with both ids      *)
(* among its steps leaves the pool, the records and the output unchanged;  *)
(* a record is appended exactly when there is such a bubble; no record has *)
(* an empty bubble list.                                                   *)
(***************************************************************************)
BothOnPath(p, remaining) ==
    { e \in DOMAIN remaining : e \in IdsOfPath(p) /\ remaining[e] \in IdsOfPath(p) }

C9_StateChangesOnlyOnContainment ==
    [][ (pc = "loop" /\ count' = count + 1) =>
          /\ BothOnPath(count + 1, remaining_ultrabubbles) = {} =>
                UNCHANGED << remaining_ultrabubbles, representative_paths, stdout >>
          /\ BothOnPath(count + 1, remaining_ultrabubbles) # {} <=>
                Len(representative_paths') = Len(representative_paths) + 1
          /\ \A i \in DOMAIN representative_paths' :
                representative_paths'[i].bubbles # << >> ]_vars

\* The first path has the entry of a pool bubble and not its exit; nothing changed.
C9_Witness ==
    /\ pc = "loop"
    /\ count = 1
    /\ \E e \in DOMAIN remaining_ultrabubbles :
          e \in IdsOfPath(1) /\ remaining_ultrabubbles[e] \notin IdsOfPath(1)
    /\ remaining_ultrabubbles = InitialPool
    /\ representative_paths = << >>

(***************************************************************************)
(* C10: in the loop the pool only shrinks and is part of the pool built    *)
(* from the input; after the loop it holds exactly the entries for which   *)
(* no path has both the entry id and the exit id among its steps, whatever *)
(* the order and the orientation of the two steps.                         *)
(***************************************************************************)
C10_RemainingIsTheUncontained ==
    /\ [](InLoop => PoolPairs(remaining_ultrabubbles) \subseteq PoolPairs(InitialPool))
    /\ [][ pc = "loop" =>
              PoolPairs(remaining_ultrabubbles') \subseteq PoolPairs(remaining_ultrabubbles)
         ]_vars
    /\ [](LoopOver =>
            PoolPairs(remaining_ultrabubbles) =
                { b \in PoolPairs(InitialPool) :
                    \A p \in DOMAIN all_paths : ~ HasBoth(p, b) })

\* A bubble was assigned to a path that has its exit before its entry, one of them reversed.
C10_Witness ==
    /\ pc = "done"
    /\ \E r \in DOMAIN representative_paths :
          LET steps == all_paths[representative_paths[r].path_name].steps
          IN  \E b \in Range(representative_paths[r].bubbles) :
                \E i, j \in DOMAIN steps :
                    /\ i < j
                    /\ steps[i][1] = b[2] /\ steps[j][1] = b[1]
                    /\ steps[i][2] # steps[j][2]
                    /\ \A k \in DOMAIN steps : k \notin { i, j } => steps[k][1] \notin { b[1], b[2] }

====
